---------------------------- MODULE Spec2Model ----------------------------
(***************************************************************************)
(* The name-keyed look-up tree of src/src/trees/named_lu_tree.rs           *)
(* (NamedLuTree; src/src/main.rs holds the same code as Graph) and its     *)
(* traversal over the stack and queue buffers of src/src/trees/common.rs.  *)
(*                                                                         *)
(* Handles are the 0-based indices of the Rust vectors; the element of     *)
(* handle h is held at position h + 1 of the TLA+ sequence.                *)
(***************************************************************************)
EXTENDS Integers, Sequences, FiniteSets, TLC

\* ------------------------------------------------------------- bounds ----

\* Number of distinct node names the callers draw their arguments from.
NumNames == 5

\* Longest children argument handed to add_with_children.
MaxChildren == 3

\* The name universe.  The code only hashes and compares names (HashMap
\* keys), so which string a new name is does not matter: a call introduces
\* unregistered names in the order of this sequence.
NameSeq == <<"A", "B", "C", "D", "E", "F", "G", "H">>

Names == {NameSeq[i] : i \in 1..NumNames}

NameIdx(n) == CHOOSE i \in 1..Len(NameSeq) : NameSeq[i] = n

\* ------------------------------------------------- values of the code ----

\* Option<usize> in parents: None, and Some(p).
None == <<>>

Some(p) == <<p>>

Ok(v) == [kind |-> "Ok", val |-> v]

Err(e) == [kind |-> "Err", val |-> e]

\* The value of a function returning ().
Unit == [kind |-> "Unit", val |-> "()"]

\* Option::unwrap() on None: the call does not return.
Panic == [kind |-> "Panic", val |-> "called Option::unwrap() on a None value"]

NodeExists == "Node exists already"

StartNotFound == "Start node not found."

\* Element of handle h (0-based) of vector v.
At(v, h) == v[h + 1]

\* HashMap::insert: the entry of key k is set to v.
MapInsert(m, k, v) ==
    [x \in (DOMAIN m) \cup {k} |-> IF x = k THEN v ELSE m[x]]

\* A mutation of the push on a children vector: the vector is replaced by
\* one holding the new handle alone.
PushAtReplace(vv, h, x) ==
    [i \in 1..Len(vv) |-> IF i = h + 1 THEN <<x>> ELSE vv[i]]

\* Vec::push on the vector of handle h of a vector of vectors.
PushAt(vv, h, x) ==
    [i \in 1..Len(vv) |-> IF i = h + 1 THEN Append(vv[i], x) ELSE vv[i]]

\* ------------------------------------------------------------- state -----

VARIABLES
    names,       \* NamedLuTree.names: Vec<Box<String>>
    name2idx,    \* NamedLuTree.name2idx: HashMap<String, usize>
    parents,     \* NamedLuTree.parents: Vec<Option<usize>>
    children,    \* NamedLuTree.children: Vec<Vec<usize>>
    pc,          \* where the program is: "idle" (between calls), "loop" (in
                 \* the while of traverse), "returned" (a call has returned
                 \* and its result is in res), "panicked"
    call,        \* the call being made or just returned: [op, name, children]
    res,         \* what the call returned
    old,         \* the four fields of the tree when the call was made
    buffer,      \* traverse: the SearchBuffer (stack or queue)
    visited,     \* traverse: HashSet<usize>
    traversal,   \* traverse: Vec<String>
    data,        \* LuTree.data: Vec<T>
    contents     \* from_file: the lines of the file still to be read

\* parents and children are the fields of NamedLuTree in Spec and the fields
\* of the same names of LuTree in LuSpec.
vars == <<names, name2idx, parents, children, pc, call, res, old,
          buffer, visited, traversal, data, contents>>

\* The tree as one value.
Tree == [names |-> names, name2idx |-> name2idx,
         parents |-> parents, children |-> children]

\* NamedLuTree::new
New == [names |-> <<>>, name2idx |-> <<>>, parents |-> <<>>, children |-> <<>>]

Call(op, name, chs) == [op |-> op, name |-> name, children |-> chs]

\* ------------------------------------------------------- insertions ------

\* A mutation of add_to_parent: the check for an existing child is missing.
AddToParentNoDupCheck(t, child, parent) ==
    IF parent \notin DOMAIN t.name2idx
    THEN [t |-> t, res |-> Panic]
    ELSE LET p_idx == t.name2idx[parent]
             node_idx == Len(t.parents)
         IN [t |-> [names |-> Append(t.names, child),
                    name2idx |-> MapInsert(t.name2idx, child, node_idx),
                    parents |-> Append(t.parents, Some(p_idx)),
                    children |-> PushAt(Append(t.children, <<>>), p_idx, node_idx)],
             res |-> Ok(node_idx)]

\* A mutation of add_to_parent: the new node is recorded as its own parent.
AddToParentSelfParent(t, child, parent) ==
    IF parent \notin DOMAIN t.name2idx
    THEN [t |-> t, res |-> Panic]
    ELSE LET p_idx == t.name2idx[parent]
             node_idx == Len(t.parents)
         IN IF child \in DOMAIN t.name2idx
            THEN [t |-> t, res |-> Err(NodeExists)]
            ELSE [t |-> [names |-> Append(t.names, child),
                         name2idx |-> MapInsert(t.name2idx, child, node_idx),
                         parents |-> Append(t.parents, Some(node_idx)),
                         children |-> PushAt(Append(t.children, <<>>), node_idx, node_idx)],
                  res |-> Ok(node_idx)]

\* A mutation of add_to_parent: the handle returned is read after the push
\* to parents.
AddToParentIdAfterPush(t, child, parent) ==
    IF parent \notin DOMAIN t.name2idx
    THEN [t |-> t, res |-> Panic]
    ELSE LET p_idx == t.name2idx[parent]
             node_idx == Len(t.parents)
         IN IF child \in DOMAIN t.name2idx
            THEN [t |-> t, res |-> Err(NodeExists)]
            ELSE [t |-> [names |-> Append(t.names, child),
                         name2idx |-> MapInsert(t.name2idx, child, node_idx),
                         parents |-> Append(t.parents, Some(p_idx)),
                         children |-> PushAt(Append(t.children, <<>>), p_idx, node_idx)],
                  res |-> Ok(node_idx + 1)]

\* A mutation of add_to_parent: the new handle is not pushed to the
\* children vector of the parent.
AddToParentNoChildLink(t, child, parent) ==
    IF parent \notin DOMAIN t.name2idx
    THEN [t |-> t, res |-> Panic]
    ELSE LET p_idx == t.name2idx[parent]
             node_idx == Len(t.parents)
         IN IF child \in DOMAIN t.name2idx
            THEN [t |-> t, res |-> Err(NodeExists)]
            ELSE [t |-> [names |-> Append(t.names, child),
                         name2idx |-> MapInsert(t.name2idx, child, node_idx),
                         parents |-> Append(t.parents, Some(p_idx)),
                         children |-> Append(t.children, <<>>)],
                  res |-> Ok(node_idx)]

\* A mutation of add_to_parent: the new handle is pushed twice to the
\* children vector of the parent.
AddToParentLinkTwice(t, child, parent) ==
    IF parent \notin DOMAIN t.name2idx
    THEN [t |-> t, res |-> Panic]
    ELSE LET p_idx == t.name2idx[parent]
             node_idx == Len(t.parents)
         IN IF child \in DOMAIN t.name2idx
            THEN [t |-> t, res |-> Err(NodeExists)]
            ELSE [t |-> [names |-> Append(t.names, child),
                         name2idx |-> MapInsert(t.name2idx, child, node_idx),
                         parents |-> Append(t.parents, Some(p_idx)),
                         children |-> PushAt(PushAt(Append(t.children, <<>>),
                                                    p_idx, node_idx),
                                             p_idx, node_idx)],
                  res |-> Ok(node_idx)]

\* NamedLuTree::add_to_parent: the tree after the call and the value returned.
AddToParent(t, child, parent) ==
    IF parent \notin DOMAIN t.name2idx
    THEN \* name2idx.get(&parent) is None and unwrap() panics
         [t |-> t, res |-> Panic]
    ELSE LET p_idx == t.name2idx[parent]
             node_idx == Len(t.parents)
         IN IF child \in DOMAIN t.name2idx
            THEN [t |-> t, res |-> Err(NodeExists)]
            ELSE [t |-> [names |-> Append(t.names, child),
                         name2idx |-> MapInsert(t.name2idx, child, node_idx),
                         parents |-> Append(t.parents, Some(p_idx)),
                         children |-> PushAt(Append(t.children, <<>>), p_idx, node_idx)],
                  res |-> Ok(node_idx)]

\* A mutation of the loop of add_with_children: the first child that
\* add_to_parent rejects ends the loop.
RECURSIVE AddChildrenStopAtError(_, _, _)
AddChildrenStopAtError(t, name, chs) ==
    IF chs = <<>> THEN t
    ELSE LET r == AddToParent(t, Head(chs), name)
         IN IF r.res.kind = "Ok"
            THEN AddChildrenStopAtError(r.t, name, Tail(chs))
            ELSE t

\* The loop of add_with_children: let _ = self.add_to_parent(child, name)
\* for each child in order; the result of each call is dropped.
RECURSIVE AddChildren(_, _, _)
AddChildren(t, name, chs) ==
    IF chs = <<>> THEN t
    ELSE AddChildren(AddToParent(t, Head(chs), name).t, name, Tail(chs))

\* A mutation of add_with_children: the node is created without looking
\* the name up first.
AddWithChildrenNoLookup(t, name, chs) ==
    LET node_idx == Len(t.parents)
        t1 == [names |-> Append(t.names, name),
               name2idx |-> MapInsert(t.name2idx, name, node_idx),
               parents |-> Append(t.parents, None),
               children |-> Append(t.children, <<>>)]
    IN AddChildren(t1, name, chs)

\* NamedLuTree::add_with_children: the tree after the call.
AddWithChildren(t, name, chs) ==
    LET node_idx == Len(t.parents)
        t1 == IF name \notin DOMAIN t.name2idx
              THEN [names |-> Append(t.names, name),
                    name2idx |-> MapInsert(t.name2idx, name, node_idx),
                    parents |-> Append(t.parents, None),
                    children |-> Append(t.children, <<>>)]
              ELSE t
    IN AddChildren(t1, name, chs)

\* ------------------------------------------------------ the buffers -----

\* impl SearchBuffer<T> for Vec<T>: enlist is push.
VecEnlist(buf, x) == Append(buf, x)

\* A mutation of Vec's get_next: the newest element is read (last) but
\* not removed.
VecGetNextPeek(buf) == [item |-> buf[Len(buf)], rest |-> buf]

\* A mutation of Vec's get_next: the oldest element is taken.
VecGetNextFront(buf) == [item |-> Head(buf), rest |-> Tail(buf)]

\* impl SearchBuffer<T> for Vec<T>: get_next is pop (buf is not empty).
VecGetNext(buf) == [item |-> buf[Len(buf)], rest |-> SubSeq(buf, 1, Len(buf) - 1)]

\* impl SearchBuffer<T> for VecDeque<T>: enlist is push_back.
VecDequeEnlist(buf, x) == Append(buf, x)

\* A mutation of VecDeque's get_next: the newest element is taken.
VecDequeGetNextBack(buf) ==
    [item |-> buf[Len(buf)], rest |-> SubSeq(buf, 1, Len(buf) - 1)]

\* impl SearchBuffer<T> for VecDeque<T>: get_next is pop_front.
VecDequeGetNext(buf) == [item |-> Head(buf), rest |-> Tail(buf)]

\* dfs hands traverse a Vec, bfs a VecDeque: dispatch through the trait.
Enlist(op, buf, x) ==
    IF op = "dfs" THEN VecEnlist(buf, x) ELSE VecDequeEnlist(buf, x)

GetNext(op, buf) ==
    IF op = "dfs" THEN VecGetNext(buf) ELSE VecDequeGetNext(buf)

\* -------------------------------------------------------- traverse -------

\* A mutation of the inner for loop: children are enlisted when they are
\* in visited instead of when they are not.
RECURSIVE EnlistVisitedChildren(_, _, _, _)
EnlistVisitedChildren(op, buf, chs, vis) ==
    IF chs = <<>> THEN buf
    ELSE EnlistVisitedChildren(op,
             IF Head(chs) \in vis THEN Enlist(op, buf, Head(chs)) ELSE buf,
             Tail(chs), vis)

\* The inner for loop of traverse: each child of the node that is not in
\* visited is enlisted, in the order of the children vector.
RECURSIVE EnlistChildren(_, _, _, _)
EnlistChildren(op, buf, chs, vis) ==
    IF chs = <<>> THEN buf
    ELSE EnlistChildren(op,
             IF Head(chs) \notin vis THEN Enlist(op, buf, Head(chs)) ELSE buf,
             Tail(chs), vis)

\* A mutation of the entry of traverse: an unknown start name is answered
\* with the empty traversal.
TraverseEntryOkOnUnknown(t, op, start) ==
    IF start \in DOMAIN t.name2idx
    THEN [pc |-> "loop", buffer |-> Enlist(op, <<>>, t.name2idx[start]), res |-> Unit]
    ELSE [pc |-> "returned", buffer |-> <<>>, res |-> Ok(<<>>)]

\* traverse up to its while loop: the start name is looked up and its
\* handle enlisted, or the call returns the error.
TraverseEntry(t, op, start) ==
    IF start \in DOMAIN t.name2idx
    THEN [pc |-> "loop", buffer |-> Enlist(op, <<>>, t.name2idx[start]), res |-> Unit]
    ELSE [pc |-> "returned", buffer |-> <<>>, res |-> Err(StartNotFound)]

\* One iteration of the while loop of traverse (buf is not empty).
TraverseIter(t, op, buf, vis, trav) ==
    LET nx == GetNext(op, buf)
        node_idx == nx.item
    IN [buffer |-> EnlistChildren(op, nx.rest, At(t.children, node_idx), vis),
        traversal |-> Append(trav, At(t.names, node_idx)),
        visited |-> vis \cup {node_idx}]

\* ------------------------------------------------------ the callers ------

\* Sequences over S of length at most n.
SeqsUpTo(S, n) == UNION {[1..k -> S] : k \in 0..n}

\* The children arguments handed to add_with_children.
ChildLists == SeqsUpTo(Names, MaxChildren)

\* The names of s that are not among the first k of NameSeq appear in s in
\* the order of NameSeq, starting with the (k+1)-th.
RECURSIVE InFreshOrder(_, _)
InFreshOrder(k, s) ==
    IF s = <<>> THEN TRUE
    ELSE IF NameIdx(Head(s)) <= k THEN InFreshOrder(k, Tail(s))
    ELSE IF NameIdx(Head(s)) = k + 1 THEN InFreshOrder(k + 1, Tail(s))
    ELSE FALSE

NoLocals == /\ buffer' = <<>>
            /\ visited' = {}
            /\ traversal' = <<>>

SetTree(t) == /\ names' = t.names
              /\ name2idx' = t.name2idx
              /\ parents' = t.parents
              /\ children' = t.children

TreeUnchanged == UNCHANGED <<names, name2idx, parents, children>>

\* No LuTree is touched and no file is read.
NamedOnly == UNCHANGED <<data, contents>>

\* A caller calls add_with_children(name, chs); the call returns ().
\* Calls are made while the nodes they can add fit the name universe.
CallAddWithChildren ==
    /\ pc = "idle"
    /\ \E name \in Names, chs \in ChildLists :
        /\ Len(names) + 1 + Len(chs) <= NumNames
        /\ InFreshOrder(Len(names), <<name>> \o chs)
        /\ \E t \in {AddWithChildren(Tree, name, chs)} : SetTree(t)
        /\ call' = Call("add_with_children", name, chs)
        /\ old' = Tree
        /\ res' = Unit
        /\ pc' = "returned"
        /\ NoLocals
    /\ NamedOnly

\* A caller calls add_to_parent(child, parent); the call returns a Result
\* or panics.
CallAddToParent ==
    /\ pc = "idle"
    /\ \E child \in Names, parent \in Names :
        /\ InFreshOrder(Len(names), <<parent, child>>)
        /\ \E r \in {AddToParent(Tree, child, parent)} :
              /\ call' = Call("add_to_parent", parent, <<child>>)
              /\ old' = Tree
              /\ SetTree(r.t)
              /\ res' = r.res
              /\ pc' = IF r.res.kind = "Panic" THEN "panicked" ELSE "returned"
        /\ NoLocals
    /\ NamedOnly

\* A caller calls dfs(start) or bfs(start): traverse runs to its loop, or
\* returns the error.
CallTraverse ==
    /\ pc = "idle"
    /\ \E op \in {"dfs", "bfs"}, start \in Names :
        /\ InFreshOrder(Len(names), <<start>>)
        /\ \E e \in {TraverseEntry(Tree, op, start)} :
              /\ call' = Call(op, start, <<>>)
              /\ old' = Tree
              /\ pc' = e.pc
              /\ buffer' = e.buffer
              /\ res' = e.res
        /\ visited' = {}
        /\ traversal' = <<>>
        /\ TreeUnchanged
    /\ NamedOnly

\* while !buffer.is_empty() { ... }: one iteration.
TraverseLoop ==
    /\ pc = "loop"
    /\ buffer # <<>>
    /\ \E n \in {TraverseIter(Tree, call.op, buffer, visited, traversal)} :
          /\ buffer' = n.buffer
          /\ traversal' = n.traversal
          /\ visited' = n.visited
    /\ UNCHANGED <<pc, call, res, old>>
    /\ TreeUnchanged
    /\ NamedOnly

\* The buffer is empty: Ok(traversal).
TraverseReturn ==
    /\ pc = "loop"
    /\ buffer = <<>>
    /\ res' = Ok(traversal)
    /\ pc' = "returned"
    /\ UNCHANGED <<call, old, buffer, visited, traversal>>
    /\ TreeUnchanged
    /\ NamedOnly

\* The caller is done with the returned value and goes on.
Continue ==
    /\ pc = "returned"
    /\ pc' = "idle"
    /\ call' = Call("none", "", <<>>)
    /\ res' = Unit
    /\ old' = Tree
    /\ NoLocals
    /\ TreeUnchanged
    /\ NamedOnly

Init == /\ names = New.names
        /\ name2idx = New.name2idx
        /\ parents = New.parents
        /\ children = New.children
        /\ pc = "idle"
        /\ call = Call("none", "", <<>>)
        /\ res = Unit
        /\ old = New
        /\ buffer = <<>>
        /\ visited = {}
        /\ traversal = <<>>
        /\ data = <<>>
        /\ contents = <<>>

Next == \/ CallAddWithChildren
        \/ CallAddToParent
        \/ CallTraverse
        \/ TraverseLoop
        \/ TraverseReturn
        \/ Continue

Spec == Init /\ [][Next]_vars

\* traverse is straight-line sequential code: once a call is in its while
\* loop the next iteration, and the return when the buffer is empty, are
\* taken.
FairSpec == Spec /\ WF_vars(TraverseLoop) /\ WF_vars(TraverseReturn)

\* ------------------------------------------------------- LuTree ----------
\* The arena tree of src/src/trees/lu_tree.rs.

\* Largest number of nodes of a LuTree.
MaxLuNodes == 3

\* The payloads callers store.
DataValues == {"0_0", "NewData"}

OutOfBounds == "Access out of bounds!"

NoParent == "Node has not parent"

\* The LuTree as one value.
LuTree == [parents |-> parents, children |-> children, data |-> data]

\* LuTree::new
LuNew == [parents |-> <<>>, children |-> <<>>, data |-> <<>>]

LuCall(op, node, d) == [op |-> op, node |-> node, data |-> d]

\* LuTree::add_node: the tree after the call and the value returned.
LuAddNode(t, parent, d) ==
    IF parent # None /\ parent[1] > Len(t.parents)
    THEN [t |-> t, res |-> Err("()")]
    ELSE LET pushed == Append(t.parents, parent)
             node_id == Len(pushed)
         IN [t |-> [parents |-> pushed,
                    children |-> Append(t.children, <<>>),
                    data |-> Append(t.data, d)],
             res |-> Ok(node_id)]

\* A mutation of set: Ok(()) is returned without storing the value.
LuSetNoStore(t, node, d) ==
    IF node < Len(t.data)
    THEN [t |-> t, res |-> Ok("()")]
    ELSE [t |-> t, res |-> Err(OutOfBounds)]

\* LuTree::set
LuSet(t, node, d) ==
    IF node < Len(t.data)
    THEN [t |-> [t EXCEPT !.data[node + 1] = d], res |-> Ok("()")]
    ELSE [t |-> t, res |-> Err(OutOfBounds)]

\* A mutation of get_from_tree!: the guard is <= and the index one past the
\* end reaches the indexing, which panics.
GetFromTreeOffByOne(field, node_idx) ==
    IF node_idx < Len(field) THEN Ok(At(field, node_idx))
    ELSE IF node_idx = Len(field)
    THEN [kind |-> "Panic", val |-> "index out of bounds"]
    ELSE Err(OutOfBounds)

\* macro get_from_tree!
GetFromTree(field, node_idx) ==
    IF node_idx < Len(field) THEN Ok(At(field, node_idx))
    ELSE Err(OutOfBounds)

\* LuTree::get
LuGet(t, node) == GetFromTree(t.data, node)

\* LuTree::parent
LuParent(t, node) ==
    LET p_res == GetFromTree(t.parents, node)
    IN IF p_res.kind = "Ok"
       THEN IF p_res.val # None THEN Ok(p_res.val[1]) ELSE Err(NoParent)
       ELSE p_res

\* LuTree::children
LuChildren(t, node) == GetFromTree(t.children, node)

\* The handles the callers pass: every slot and the two indices past the
\* last one.
LuNodeArgs == 0 .. (Len(parents) + 1)

SetLuTree(t) == /\ parents' = t.parents
                /\ children' = t.children
                /\ data' = t.data

\* No NamedLuTree is touched, no traversal runs and no file is read.
LuOnly == UNCHANGED <<names, name2idx, buffer, visited, traversal, contents>>

\* A call on the LuTree has produced the tree r.t and the value r.res.
LuReturn(c, r) ==
    /\ call' = c
    /\ old' = LuTree
    /\ SetLuTree(r.t)
    /\ res' = r.res
    /\ pc' = IF r.res.kind = "Panic" THEN "panicked" ELSE "returned"
    /\ LuOnly

\* A caller calls add_node(parent, d).
LuCallAddNode ==
    /\ pc = "idle"
    /\ Len(parents) < MaxLuNodes
    /\ \E parent \in {None} \cup {Some(p) : p \in LuNodeArgs}, d \in DataValues :
           LuReturn(LuCall("add_node", parent, d), LuAddNode(LuTree, parent, d))

\* A caller calls set(node, d).
LuCallSet ==
    /\ pc = "idle"
    /\ \E node \in LuNodeArgs, d \in DataValues :
           LuReturn(LuCall("set", node, d), LuSet(LuTree, node, d))

\* A caller calls get(node).
LuCallGet ==
    /\ pc = "idle"
    /\ \E node \in LuNodeArgs :
           LuReturn(LuCall("get", node, ""),
                    [t |-> LuTree, res |-> LuGet(LuTree, node)])

\* A caller calls parent(node).
LuCallParent ==
    /\ pc = "idle"
    /\ \E node \in LuNodeArgs :
           LuReturn(LuCall("parent", node, ""),
                    [t |-> LuTree, res |-> LuParent(LuTree, node)])

\* A caller calls children(node).
LuCallChildren ==
    /\ pc = "idle"
    /\ \E node \in LuNodeArgs :
           LuReturn(LuCall("children", node, ""),
                    [t |-> LuTree, res |-> LuChildren(LuTree, node)])

\* The caller is done with the returned value and goes on.
LuContinue ==
    /\ pc = "returned"
    /\ pc' = "idle"
    /\ call' = LuCall("none", 0, "")
    /\ res' = Unit
    /\ old' = LuTree
    /\ UNCHANGED <<parents, children, data>>
    /\ LuOnly

LuInit == /\ names = <<>>
          /\ name2idx = <<>>
          /\ parents = LuNew.parents
          /\ children = LuNew.children
          /\ data = LuNew.data
          /\ pc = "idle"
          /\ call = LuCall("none", 0, "")
          /\ res = Unit
          /\ old = LuNew
          /\ buffer = <<>>
          /\ visited = {}
          /\ traversal = <<>>
          /\ contents = <<>>

LuNext == \/ LuCallAddNode
          \/ LuCallSet
          \/ LuCallGet
          \/ LuCallParent
          \/ LuCallChildren
          \/ LuContinue

LuSpec == LuInit /\ [][LuNext]_vars

\* ------------------------------------------------ reading the state -----

Handles == 0 .. Len(names) - 1

Registered(t) == DOMAIN t.name2idx

\* The arguments of the call, under the names the code gives them.
ArgParent == call.name

ArgChild == call.children[1]

ArgStart == call.name

Returned(op) == pc = "returned" /\ call.op = op

\* --------------------------------------------------------- C1 ------------

\* C1: add_to_parent(child, parent) with a child name that is registered
\* and a registered parent returns Err("Node exists already") and leaves the
\* tree as it was: the four fields keep their sizes and the children list
\* of the parent is the one it had.
C1_DuplicateRejected ==
    (/\ call.op = "add_to_parent"
     /\ pc \in {"returned", "panicked"}
     /\ ArgChild \in Registered(old)
     /\ ArgParent \in Registered(old))
    => /\ pc = "returned"
       /\ res.kind = "Err"
       /\ res.val = NodeExists
       /\ Len(names) = Len(old.names)
       /\ Len(parents) = Len(old.parents)
       /\ Len(children) = Len(old.children)
       /\ Cardinality(DOMAIN name2idx) = Cardinality(DOMAIN old.name2idx)
       /\ At(children, old.name2idx[ArgParent])
              = At(old.children, old.name2idx[ArgParent])
       /\ Tree = old

\* A duplicate child that is a non-root node, offered to another parent
\* that has children of its own, was rejected.
C1_Witness ==
    /\ Returned("add_to_parent")
    /\ ArgChild \in Registered(old)
    /\ ArgParent \in Registered(old)
    /\ ArgChild # ArgParent
    /\ At(old.parents, old.name2idx[ArgChild]) # None
    /\ At(old.parents, old.name2idx[ArgChild]) # Some(old.name2idx[ArgParent])
    /\ At(old.children, old.name2idx[ArgParent]) # <<>>
    /\ res.kind = "Err"

\* --------------------------------------------------------- C2 ------------

\* C2: add_to_parent(child, parent) with a parent name that is not
\* registered completes and returns an error value to its caller, and the
\* tree is as it was, whether or not the child name is registered.
C2_UnknownParentIsAnError ==
    (/\ call.op = "add_to_parent"
     /\ pc \in {"returned", "panicked"}
     /\ ArgParent \notin Registered(old))
    => /\ pc = "returned"
       /\ res.kind = "Err"
       /\ Tree = old

\* --------------------------------------------------------- C3 ------------

\* C3: in every state reached from the empty tree by add_with_children and
\* add_to_parent calls, names, parents, children and name2idx have the same
\* size, no two handles carry the same name, and name2idx maps names[h]
\* to h for every handle h.
C3_NameIndexBijective ==
    /\ Len(parents) = Len(names)
    /\ Len(children) = Len(names)
    /\ Cardinality(DOMAIN name2idx) = Len(names)
    /\ \A h1, h2 \in Handles : h1 # h2 => At(names, h1) # At(names, h2)
    /\ \A h \in Handles :
           /\ At(names, h) \in DOMAIN name2idx
           /\ name2idx[At(names, h)] = h

\* An add_with_children call that found its name and one of its children
\* registered (a rejected child) and still added a node has returned,
\* leaving a tree of at least three nodes.
C3_Witness ==
    /\ Len(names) >= 3
    /\ Returned("add_with_children")
    /\ call.name \in Registered(old)
    /\ \E i \in 1..Len(call.children) : call.children[i] \in Registered(old)
    /\ Len(names) > Len(old.names)

\* --------------------------------------------------------- C4 ------------

\* Following the parent links from h, never entering a handle of seen,
\* ends at a handle whose parent is None.
RECURSIVE ChainEndsAtRoot(_, _)
ChainEndsAtRoot(h, seen) ==
    /\ h \in Handles
    /\ h \notin seen
    /\ \/ At(parents, h) = None
       \/ /\ At(parents, h) # None
          /\ ChainEndsAtRoot(At(parents, h)[1], seen \cup {h})

\* C4: following parent links from any handle visits no handle twice and
\* ends at a handle whose parent is None; no handle is its own parent.
C4_ParentsFormForest ==
    \A h \in Handles :
        /\ ChainEndsAtRoot(h, {})
        /\ At(parents, h) # Some(h)

\* A node with a parent and a grandparent exists after a successful
\* add_to_parent.
C4_Witness ==
    /\ Returned("add_to_parent")
    /\ res.kind = "Ok"
    /\ \E h \in Handles :
           /\ At(parents, h) # None
           /\ At(parents, At(parents, h)[1]) # None

\* ------------------------------------------- traversals, as claimed -----

\* The handles in a children vector.
Elems(chs) == {chs[i] : i \in 1..Len(chs)}

\* The handles that can be reached from the handles of S through children
\* links (S included).
RECURSIVE ReachFrom(_)
ReachFrom(S) ==
    LET N == S \cup UNION {Elems(At(children, h)) : h \in S}
    IN IF N = S THEN S ELSE ReachFrom(N)

\* The names of a sequence of handles.
NamesOf(hs) == [i \in 1..Len(hs) |-> At(names, hs[i])]

\* Pre-order listing of the subtree of h with, at every node, the subtrees
\* of the children listed from the last inserted child to the first.
RECURSIVE PreOrderRev(_), SubtreesLastFirst(_, _)
PreOrderRev(h) ==
    <<h>> \o SubtreesLastFirst(At(children, h), Len(At(children, h)))

SubtreesLastFirst(chs, k) ==
    IF k = 0 THEN <<>>
    ELSE PreOrderRev(chs[k]) \o SubtreesLastFirst(chs, k - 1)

\* The children vectors of the handles of level, one after the other.
RECURSIVE ChildrenOfAll(_)
ChildrenOfAll(level) ==
    IF level = <<>> THEN <<>>
    ELSE At(children, Head(level)) \o ChildrenOfAll(Tail(level))

\* A level followed by all the levels below it.
RECURSIVE LevelsFrom(_)
LevelsFrom(level) ==
    IF level = <<>> THEN <<>>
    ELSE level \o LevelsFrom(ChildrenOfAll(level))

\* Number of parent links from h up to s; negative when s is no ancestor
\* of h.
RECURSIVE DepthBelow(_, _)
DepthBelow(s, h) ==
    IF h = s THEN 0
    ELSE IF At(parents, h) = None THEN 0 - Len(names) - 1
    ELSE 1 + DepthBelow(s, At(parents, h)[1])

\* Position of x in the sequence out (0 when absent).
PosIn(out, x) ==
    IF \E i \in 1..Len(out) : out[i] = x
    THEN CHOOSE i \in 1..Len(out) : out[i] = x
    ELSE 0

\* The tree after add_with_children("A", ["B", "C", "D"]) on the empty tree
\* and then add_to_parent("E", "B").
ScenarioTree ==
    [names |-> <<"A", "B", "C", "D", "E">>,
     name2idx |-> [n \in {"A", "B", "C", "D", "E"} |-> NameIdx(n) - 1],
     parents |-> <<None, Some(0), Some(0), Some(0), Some(1)>>,
     children |-> << <<1, 2, 3>>, <<4>>, <<>>, <<>>, <<>> >>]

\* A dfs or bfs call with a registered start name has returned.
TraversalReturned(op) ==
    /\ Returned(op)
    /\ ArgStart \in DOMAIN name2idx

\* --------------------------------------------------------- C5 ------------

\* C5: for a registered start name, bfs(start) and dfs(start) return Ok of
\* a sequence that holds the name of every handle reachable from start
\* through children links exactly once and no other name; its length is the
\* number of handles reachable from start.
C5_TraversalVisitsReachableOnce ==
    \A op \in {"dfs", "bfs"} :
        TraversalReturned(op) =>
            /\ res.kind = "Ok"
            /\ LET out == res.val
                   R == ReachFrom({name2idx[ArgStart]})
               IN /\ Len(out) = Cardinality(R)
                  /\ \A h \in R :
                         Cardinality({i \in 1..Len(out) : out[i] = At(names, h)}) = 1
                  /\ \A i \in 1..Len(out) : \E h \in R : out[i] = At(names, h)

\* A traversal has returned from a start node that has a parent, a sibling
\* and a grandchild.
C5_Witness ==
    /\ \E op \in {"dfs", "bfs"} : TraversalReturned(op)
    /\ LET s == name2idx[ArgStart]
       IN /\ At(parents, s) # None
          /\ Len(At(children, At(parents, s)[1])) >= 2
          /\ \E c \in Elems(At(children, s)) : At(children, c) # <<>>
          /\ Len(res.val) < Len(names)

\* --------------------------------------------------------- C6 ------------

\* C6: dfs(start) returns the pre-order listing of the subtree of start in
\* which, at every node, the children's subtrees are listed in reverse
\* insertion order; on the tree built by add_with_children(A, [B, C, D])
\* and add_to_parent(E, B), dfs(A) = [A, D, C, B, E].
C6_DfsIsReversePreOrder ==
    TraversalReturned("dfs") =>
        /\ res.kind = "Ok"
        /\ res.val = NamesOf(PreOrderRev(name2idx[ArgStart]))
        /\ (Tree = ScenarioTree /\ ArgStart = "A")
               => res.val = <<"A", "D", "C", "B", "E">>

\* dfs("A") has returned on the tree of the scenario.
C6_Witness ==
    /\ TraversalReturned("dfs")
    /\ Tree = ScenarioTree
    /\ ArgStart = "A"
    /\ res.val = <<"A", "D", "C", "B", "E">>

\* --------------------------------------------------------- C7 ------------

\* C7: bfs(start) returns the subtree of start in level order: the depth
\* below start never decreases along the output, nodes of one depth appear
\* in the order of their parents in the output, children of one parent
\* appear in insertion order; on the tree of the scenario,
\* bfs(A) = [A, B, C, D, E].
C7_BfsIsLevelOrder ==
    TraversalReturned("bfs") =>
        /\ res.kind = "Ok"
        /\ LET out == res.val
               s == name2idx[ArgStart]
               H(i) == name2idx[out[i]]
               D(i) == DepthBelow(s, H(i))
               ParentPos(i) == PosIn(out, At(names, At(parents, H(i))[1]))
           IN /\ out = NamesOf(LevelsFrom(<<s>>))
              /\ \A i \in 1..Len(out) : D(i) >= 0
              /\ \A i, j \in 1..Len(out) :
                     i < j =>
                         /\ D(i) <= D(j)
                         /\ (D(i) = D(j) /\ D(i) > 0) =>
                                /\ ParentPos(i) <= ParentPos(j)
                                /\ ParentPos(i) = ParentPos(j) => H(i) < H(j)
        /\ (Tree = ScenarioTree /\ ArgStart = "A")
               => res.val = <<"A", "B", "C", "D", "E">>

\* bfs("A") has returned on the tree of the scenario.
C7_Witness ==
    /\ TraversalReturned("bfs")
    /\ Tree = ScenarioTree
    /\ ArgStart = "A"
    /\ res.val = <<"A", "B", "C", "D", "E">>

\* --------------------------------------------------------- C8 ------------

\* C8: dfs and bfs called with a start name that is not registered return
\* Err("Start node not found."); nothing was enlisted in the buffer and no
\* name was pushed to the traversal.
C8_UnknownStartRejected ==
    \A op \in {"dfs", "bfs"} :
        (call.op = op /\ ArgStart \notin DOMAIN name2idx) =>
            /\ pc = "returned"
            /\ res.kind = "Err"
            /\ res.val = StartNotFound
            /\ buffer = <<>>
            /\ traversal = <<>>
            /\ visited = {}

\* bfs was called on a tree with nodes and a start name that is not one
\* of them.
C8_Witness ==
    /\ Returned("bfs")
    /\ Len(names) >= 2
    /\ ArgStart \notin DOMAIN name2idx
    /\ res.kind = "Err"

\* --------------------------------------------------------- C9 ------------

\* The positions of chs whose name is inserted by add_with_children(name,
\* chs) on the tree t: the name is not registered in t, is not name itself
\* and does not occur earlier in chs.
AcceptedAt(t, name, chs) ==
    {i \in 1..Len(chs) :
        /\ chs[i] \notin Registered(t)
        /\ chs[i] # name
        /\ \A j \in 1..(i - 1) : chs[j] # chs[i]}

\* The k-th smallest element of the set of numbers P.
Kth(P, k) == CHOOSE i \in P : Cardinality({j \in P : j < i}) = k - 1

\* The names at the positions P of chs, in the order of chs.
Pick(chs, P) == [k \in 1..Cardinality(P) |-> chs[Kth(P, k)]]

\* C9: add_with_children(name, children) always returns (); the node name
\* is created as a root when it is not registered; then exactly the child
\* names that are not registered when they are processed (not in the tree
\* before, not name itself, not earlier in the list) are added under name,
\* in the order given, and the entries after a skipped one are processed.
C9_BatchSkipsBadChildren ==
    call.op = "add_with_children" =>
        /\ pc = "returned"
        /\ res = Unit
        /\ LET name == call.name
               chs == call.children
               known == name \in Registered(old)
               hn == IF known THEN old.name2idx[name] ELSE Len(old.names)
               n0 == IF known THEN Len(old.names) ELSE Len(old.names) + 1
               P == AcceptedAt(old, name, chs)
               acc == Pick(chs, P)
               fresh == [k \in 1..Len(acc) |-> n0 + k - 1]
           IN /\ names = old.names \o (IF known THEN <<>> ELSE <<name>>) \o acc
              /\ parents = old.parents \o (IF known THEN <<>> ELSE <<None>>)
                               \o [k \in 1..Len(acc) |-> Some(hn)]
              /\ Len(children) = n0 + Len(acc)
              /\ \A h \in Handles :
                     At(children, h) =
                         (IF h < Len(old.children) THEN At(old.children, h) ELSE <<>>)
                             \o (IF h = hn THEN fresh ELSE <<>>)
              /\ DOMAIN name2idx = Registered(old) \cup {name} \cup Elems(acc)
              /\ \A n \in Registered(old) : name2idx[n] = old.name2idx[n]
              /\ name2idx[name] = hn
              /\ \A k \in 1..Len(acc) : name2idx[acc[k]] = n0 + k - 1

\* add_with_children has returned from a call whose list held a registered
\* name, then the name of the node itself or a repeated name, then a name
\* that was inserted.
C9_Witness ==
    /\ Returned("add_with_children")
    /\ LET chs == call.children
           P == AcceptedAt(old, call.name, chs)
       IN \E i, j, k \in 1..Len(chs) :
              /\ i < j /\ j < k
              /\ chs[i] \in Registered(old)
              /\ j \notin P
              /\ chs[j] = call.name \/ chs[j] = chs[i]
              /\ k \in P

\* --------------------------------------------------------- C10 -----------

\* C10: add_with_children(name, []) registers name; when name was not
\* registered the tree grows by exactly one root node whose handle is the
\* former size; when name was registered (as after a first such call) name
\* keeps its handle and nothing in the tree changes; and a further
\* add_with_children(name, []) on the tree just returned changes nothing.
C10_RootInsertionIdempotent ==
    (call.op = "add_with_children" /\ call.children = <<>>) =>
        /\ pc = "returned"
        /\ call.name \in DOMAIN name2idx
        /\ IF call.name \in Registered(old)
           THEN /\ Tree = old
                /\ name2idx[call.name] = old.name2idx[call.name]
           ELSE /\ Len(names) = Len(old.names) + 1
                /\ Len(parents) = Len(old.parents) + 1
                /\ Len(children) = Len(old.children) + 1
                /\ Cardinality(DOMAIN name2idx) = Cardinality(Registered(old)) + 1
                /\ name2idx[call.name] = Len(old.names)
        /\ AddWithChildren(Tree, call.name, <<>>) = Tree

\* add_with_children(name, []) has returned on a tree whose last node is
\* the childless root name, as a first add_with_children(name, []) leaves
\* it.
C10_Witness ==
    /\ Returned("add_with_children")
    /\ call.children = <<>>
    /\ call.name \in Registered(old)
    /\ old.name2idx[call.name] = Len(old.names) - 1
    /\ At(old.parents, old.name2idx[call.name]) = None
    /\ At(old.children, old.name2idx[call.name]) = <<>>
    /\ Len(old.names) >= 2
    /\ Tree = old

\* --------------------------------------------------------- C14 -----------

\* C14: a successful add_to_parent(child, parent) returns Ok(h) with h the
\* size of the tree before the call; afterwards names[h] is child,
\* parents[h] is the handle of parent and the size of the tree is h + 1.
C14_ChildHandleIsOldSize ==
    (Returned("add_to_parent") /\ res.kind = "Ok") =>
        LET h == res.val
        IN /\ h = Len(old.names)
           /\ h = Len(old.parents)
           /\ h = Len(old.children)
           /\ Len(names) = h + 1
           /\ Len(parents) = h + 1
           /\ Len(children) = h + 1
           /\ At(names, h) = ArgChild
           /\ At(parents, h) = Some(old.name2idx[ArgParent])
           /\ name2idx[ArgChild] = h

\* A successful add_to_parent on a tree of at least two nodes, under a
\* parent that is not the node of handle 0.
C14_Witness ==
    /\ Returned("add_to_parent")
    /\ res.kind = "Ok"
    /\ res.val >= 2
    /\ At(parents, res.val) # Some(0)

\* --------------------------------------------------------- C17 -----------

\* s is a prefix of t.
IsPrefix(s, t) == Len(s) <= Len(t) /\ SubSeq(t, 1, Len(s)) = s

\* C17: after every add_with_children or add_to_parent call, successful or
\* not, the tree has not shrunk, every handle it had keeps its name and its
\* parent link, and every children vector it had is a prefix of the one it
\* has now; add_with_children on a registered name creates no second node
\* for the name and the children it adds follow the ones the node had.
C17_InsertionsAppendOnly ==
    (call.op \in {"add_with_children", "add_to_parent"}
        /\ pc \in {"returned", "panicked"}) =>
        /\ Len(names) >= Len(old.names)
        /\ Len(parents) >= Len(old.parents)
        /\ Len(children) >= Len(old.children)
        /\ \A h \in 0..(Len(old.names) - 1) :
               /\ At(names, h) = At(old.names, h)
               /\ At(parents, h) = At(old.parents, h)
               /\ IsPrefix(At(old.children, h), At(children, h))
        /\ \A n \in Registered(old) :
               /\ n \in DOMAIN name2idx
               /\ name2idx[n] = old.name2idx[n]
        /\ (call.op = "add_with_children" /\ call.name \in Registered(old)) =>
               /\ Cardinality({h \in Handles : At(names, h) = call.name}) = 1
               /\ \A h \in Handles :
                      h >= Len(old.names) =>
                          At(parents, h) = Some(old.name2idx[call.name])

\* add_with_children on the name of a registered non-root node that had a
\* child has added a further child to it.
C17_Witness ==
    /\ Returned("add_with_children")
    /\ call.name \in Registered(old)
    /\ LET hn == old.name2idx[call.name]
       IN /\ At(old.parents, hn) # None
          /\ At(old.children, hn) # <<>>
          /\ Len(At(children, hn)) > Len(At(old.children, hn))

\* --------------------------------------------------------- C18 -----------

\* C18: handle c occurs in children[p] exactly when parents[c] = Some(p);
\* every children vector is without duplicates and lists its handles in
\* strictly increasing (insertion) order; a handle whose parent is None is
\* in no children vector.
C18_ParentsAndChildrenAgree ==
    /\ \A p, c \in Handles :
           (c \in Elems(At(children, p))) <=> (At(parents, c) = Some(p))
    /\ \A p \in Handles :
           /\ Elems(At(children, p)) \subseteq Handles
           /\ \A i, j \in 1..Len(At(children, p)) :
                  i < j => At(children, p)[i] < At(children, p)[j]
    /\ \A c \in Handles :
           At(parents, c) = None =>
               \A p \in Handles : c \notin Elems(At(children, p))

\* A tree with two roots, a node with two children and a grandchild.
C18_Witness ==
    /\ \E r1, r2 \in Handles :
           r1 # r2 /\ At(parents, r1) = None /\ At(parents, r2) = None
    /\ \E p \in Handles : Len(At(children, p)) >= 2
    /\ \E h \in Handles :
           /\ At(parents, h) # None
           /\ At(parents, At(parents, h)[1]) # None

\* --------------------------------------------------------- C19 -----------

\* C19: for every registered start name and both buffers, a traverse call
\* that has entered its while loop eventually finds the buffer empty and
\* returns; the number of iterations made (one name is pushed to traversal
\* in each) never exceeds the number of nodes of the tree.
C19_TraverseTerminates ==
    /\ [](call.op \in {"dfs", "bfs"} =>
              /\ Len(traversal) <= Len(names)
              /\ Cardinality(visited) = Len(traversal))
    /\ \A op \in {"dfs", "bfs"} :
           (pc = "loop" /\ call.op = op)
               ~> (pc = "returned" /\ call.op = op /\ buffer = <<>>
                       /\ res.kind = "Ok")

\* A dfs call has returned after as many iterations as the tree has nodes,
\* on a tree of at least four nodes.
C19_Witness ==
    /\ TraversalReturned("dfs")
    /\ Len(names) >= 4
    /\ Len(traversal) = Len(names)
    /\ buffer = <<>>

\* ------------------------------------------------ LuTree, as claimed -----

LuHandles == 0 .. Len(parents) - 1

\* The call of op on the LuTree has ended (returned or panicked).
LuEnded(op) == call.op = op /\ pc \in {"returned", "panicked"}

\* The slot add_node has just created.
NewSlot == Len(old.parents)

\* --------------------------------------------------------- C11 -----------

\* C11: after add_node(Some(p), data) succeeds with p an allocated handle,
\* the handle of the new node is the last element of children(p) and
\* parent(new handle) is p; children(p) lists exactly the handles added
\* with parent p, in insertion order.
C11_AddNodeLinksChild ==
    (/\ LuEnded("add_node")
     /\ res.kind = "Ok"
     /\ call.node # None
     /\ call.node[1] < Len(old.parents))
    => LET p == call.node[1]
           chs == LuChildren(LuTree, p)
       IN /\ LuParent(LuTree, NewSlot) = Ok(p)
          /\ chs.kind = "Ok"
          /\ chs.val # <<>>
          /\ chs.val[Len(chs.val)] = NewSlot
          /\ Elems(chs.val) = {c \in LuHandles : At(parents, c) = Some(p)}
          /\ \A i, j \in 1..Len(chs.val) : i < j => chs.val[i] < chs.val[j]

\* --------------------------------------------------------- C12 -----------

\* C12: add_node(Some(p), data) returns an error for every p that is not
\* an allocated handle (p >= the number of nodes, the number itself
\* included), and parents, children and data are then unchanged.
C12_AddNodeRejectsUnallocatedParent ==
    (/\ LuEnded("add_node")
     /\ call.node # None
     /\ call.node[1] >= Len(old.parents))
    => /\ pc = "returned"
       /\ res.kind = "Err"
       /\ LuTree = old

\* --------------------------------------------------------- C13 -----------

\* C13: the handle a successful add_node returns is the slot just created
\* (0 for the first node of an empty tree, k - 1 for the k-th), and get of
\* that handle yields the data passed to the call.
C13_AddNodeReturnsNewSlot ==
    (LuEnded("add_node") /\ res.kind = "Ok")
    => /\ res.val = NewSlot
       /\ Len(parents) = NewSlot + 1
       /\ LuGet(LuTree, res.val).kind = "Ok"
       /\ LuGet(LuTree, res.val).val = call.data

\* --------------------------------------------------------- C15 -----------

\* C15: get(h), set(h, v), parent(h) and children(h) with h >= the number
\* of nodes return Err("Access out of bounds!") and leave parents, children
\* and data unchanged.
C15_OutOfRangeHandleIsAnError ==
    \A op \in {"get", "set", "parent", "children"} :
        (LuEnded(op) /\ call.node >= Len(old.data))
        => /\ pc = "returned"
           /\ res.kind = "Err"
           /\ res.val = OutOfBounds
           /\ LuTree = old
           /\ Len(parents) = Len(data)
           /\ Len(children) = Len(data)

\* parent(h) with h the number of nodes has returned on a tree of at least
\* two nodes.
C15_Witness ==
    /\ LuEnded("parent")
    /\ Len(data) >= 2
    /\ call.node = Len(data)
    /\ res.kind = "Err"

\* --------------------------------------------------------- C16 -----------

\* C16: for an allocated handle h, set(h, v) returns Ok, a get(h) on the
\* tree it leaves returns v, and the payload of every other handle, all
\* parent links, all children vectors and the size are unchanged.
C16_SetThenGet ==
    (LuEnded("set") /\ call.node < Len(old.data))
    => /\ pc = "returned"
       /\ res.kind = "Ok"
       /\ LuGet(LuTree, call.node).kind = "Ok"
       /\ LuGet(LuTree, call.node).val = call.data
       /\ Len(data) = Len(old.data)
       /\ \A h \in LuHandles : h # call.node => At(data, h) = At(old.data, h)
       /\ parents = old.parents
       /\ children = old.children

\* set has replaced the payload of the middle node of three by another
\* value.
C16_Witness ==
    /\ LuEnded("set")
    /\ Len(old.data) = 3
    /\ call.node = 1
    /\ At(old.data, 1) # call.data
    /\ At(data, 1) = call.data
    /\ res.kind = "Ok"

\* ------------------------------------------------ the text importer ------
\* NamedLuTree::from_file and parse_line of src/src/trees/named_lu_tree.rs.
\* A string is the sequence of its characters; a name handed to the tree is
\* the String made of them.

\* Longest file, in characters.
MaxFileLen == 6

Newline == "\n"

\* The characters of a file: a letter for names, the characters of the two
\* separators, and the line ending.
LineChars == {"A", ",", "-", ">"}

FileChars == LineChars \cup {Newline}

\* What fs::read_to_string can return.
FileContents == UNION {[1..n -> FileChars] : n \in 0..MaxFileLen}

Arrow == <<"-", ">">>

Comma == <<",">>

\* str::split(pat).collect(): the pieces between the matches of pat, found
\* from the left without overlap; cur is the piece being read.
RECURSIVE SplitFrom(_, _, _)
SplitFrom(s, pat, cur) ==
    IF s = <<>> THEN <<cur>>
    ELSE IF Len(s) >= Len(pat) /\ SubSeq(s, 1, Len(pat)) = pat
    THEN <<cur>> \o SplitFrom(SubSeq(s, Len(pat) + 1, Len(s)), pat, <<>>)
    ELSE SplitFrom(Tail(s), pat, Append(cur, Head(s)))

Split(s, pat) == SplitFrom(s, pat, <<>>)

\* str::lines(): the pieces between line endings; a final line ending
\* adds no empty last line.
StrLines(s) ==
    LET ps == Split(s, <<Newline>>)
    IN IF ps[Len(ps)] = <<>> THEN SubSeq(ps, 1, Len(ps) - 1) ELSE ps

\* to_string of a piece: the String of its characters.
RECURSIVE PieceToString(_)
PieceToString(s) == IF s = <<>> THEN "" ELSE Head(s) \o PieceToString(Tail(s))

\* parts[1] on a vector of one element: the call does not return.
IndexPanic == [kind |-> "Panic", val |-> "index out of bounds"]

\* NamedLuTree::parse_line
ParseLine(line) ==
    LET parts == Split(line, Arrow)
    IN IF Len(parts) < 2
       THEN IndexPanic
       ELSE LET chs == Split(parts[2], Comma)
            IN Ok([parent |-> PieceToString(parts[1]),
                   children |-> [i \in 1..Len(chs) |-> PieceToString(chs[i])]])

FileCall(op, line) == [op |-> op, line |-> line]

FileOnly == UNCHANGED <<buffer, visited, traversal, data>>

\* from_file: one turn of the for loop on a line that parse_line accepts.
FromFileLine ==
    /\ pc = "loop"
    /\ contents # <<>>
    /\ \E r \in {ParseLine(Head(contents))} :
        /\ r.kind = "Ok"
        /\ \E t \in {AddWithChildren(Tree, r.val.parent, r.val.children)} :
               SetTree(t)
        /\ res' = r
    /\ call' = FileCall("from_file", Head(contents))
    /\ old' = Tree
    /\ contents' = Tail(contents)
    /\ pc' = "loop"
    /\ FileOnly

\* from_file: parse_line panics on the line; the program stops there.
FromFilePanic ==
    /\ pc = "loop"
    /\ contents # <<>>
    /\ \E r \in {ParseLine(Head(contents))} :
        /\ r.kind = "Panic"
        /\ res' = r
    /\ call' = FileCall("from_file", Head(contents))
    /\ old' = Tree
    /\ pc' = "panicked"
    /\ TreeUnchanged
    /\ UNCHANGED contents
    /\ FileOnly

\* from_file: no line is left, the tree is returned.
FromFileReturn ==
    /\ pc = "loop"
    /\ contents = <<>>
    /\ pc' = "returned"
    /\ TreeUnchanged
    /\ UNCHANGED <<call, res, old, contents>>
    /\ FileOnly

\* from_file has made the empty tree and read the file.
FileInit == /\ names = New.names
            /\ name2idx = New.name2idx
            /\ parents = New.parents
            /\ children = New.children
            /\ pc = "loop"
            /\ call = FileCall("none", <<>>)
            /\ res = Unit
            /\ old = New
            /\ buffer = <<>>
            /\ visited = {}
            /\ traversal = <<>>
            /\ data = <<>>
            /\ \E file \in FileContents : contents = StrLines(file)

FileNext == \/ FromFileLine
            \/ FromFilePanic
            \/ FromFileReturn

FileSpec == FileInit /\ [][FileNext]_vars

\* --------------------------------------------------------- C20 -----------

\* The line holds no "->".
LacksSeparator(line) ==
    \A i \in 1..(Len(line) - 1) : SubSeq(line, i, i + 1) # Arrow

\* The line is a parent followed by "->" and nothing more, as "A->".
NoChildTokens(line) ==
    /\ Len(line) >= 2
    /\ SubSeq(line, Len(line) - 1, Len(line)) = Arrow
    /\ LacksSeparator(SubSeq(line, 1, Len(line) - 2))

\* C20: parse_line fails (returns no (parent, children) pair) on a line
\* without "->" and on a line with no child token after "->", such as
\* "A->"; from_file then inserts no child whose name is the empty string.
C20_ParseLineFailsLoudly ==
    (/\ call.op = "from_file"
     /\ LacksSeparator(call.line) \/ NoChildTokens(call.line))
    => /\ res.kind = "Panic"
       /\ Tree = old
       /\ \A h \in Handles :
              (h >= Len(old.names) /\ At(names, h) = "")
              => At(parents, h) = None

\* --------------------------------------------------------- C21 -----------

\* The elements of s are pairwise distinct.
NoRepeat(s) == \A i, j \in 1..Len(s) : i # j => s[i] # s[j]

\* The number of entries of the children vectors of the handles of S.
RECURSIVE ChildCount(_)
ChildCount(S) ==
    IF S = {} THEN 0
    ELSE LET h == CHOOSE x \in S : TRUE
         IN Len(At(children, h)) + ChildCount(S \ {h})

\* C21: during traverse, with a stack or a queue, no handle is enlisted
\* twice: at every step the handles in the buffer are pairwise distinct
\* and none is in visited; the visited check of the inner loop has
\* rejected no child (every child of every node taken so far was
\* enlisted) and will reject none of the children of a pending handle; no
\* name is pushed twice to the traversal.
C21_NoHandleEnlistedTwice ==
    (call.op \in {"dfs", "bfs"} /\ pc = "loop")
    => /\ NoRepeat(buffer)
       /\ Elems(buffer) \cap visited = {}
       /\ Len(traversal) + Len(buffer) = 1 + ChildCount(visited)
       /\ \A h \in Elems(buffer) : Elems(At(children, h)) \cap visited = {}
       /\ NoRepeat(traversal)
       /\ Cardinality(visited) = Len(traversal)

\* A breadth-first traversal is in its loop with two handles taken and two
\* or more pending, one of them a child of the second handle taken.
C21_Witness ==
    /\ call.op = "bfs"
    /\ pc = "loop"
    /\ Cardinality(visited) = 2
    /\ Len(buffer) >= 2
    /\ \E h \in visited :
          /\ At(parents, h) # None
          /\ Elems(At(children, h)) \cap Elems(buffer) # {}

=============================================================================
